---- MODULE Spec2Model ----
(***************************************************************************)
(* A model of the two binders of react-sceneview:                          *)
(*   - Layer        (src/src/scene/layer/index.jsx), the Layer Lifecycle   *)
(*                  Manager, and                                           *)
(*   - DrawingTool  (src/src/tools/drawing-tool/index.js), the Interactive *)
(*                  Geometry Editor.                                       *)
(* Every await of the source is a position of the handler (pc, tpc); the   *)
(* step that runs from one await to the next is one action.  `calls` and   *)
(* `tcalls` hold the calls the last step made on its collaborators, in     *)
(* the order the code makes them.                                          *)
(***************************************************************************)
EXTENDS Integers, Sequences, FiniteSets, TLC

\* ------------------------------------------------------------------ bounds
MaxMounts == 2       \* component instances mounted one after the other
MaxUpdates == 2      \* prop updates delivered to one instance
MaxEvents == 3       \* engine events delivered to one DrawingTool instance

\* ------------------------------------------------------- values (Layer)
NullNum == -1        \* null in a numeric prop (refresh, opacity)
UndefNum == -2       \* undefined in a numeric prop
NullStr == "<null>"              \* null in a string prop (url)
UndefStr == "<undefined>"        \* undefined in a string prop
NoHL == 0            \* highlights: null
NoView == "none"
Views == {"v1", "v2"}
LayerId == "a"
LayerTypes == {"feature", "point-cloud"}

NoHandle == [id |-> "none", gen |-> 0, src |-> FALSE]
NoLayerView == [h |-> NoHandle, canHL |-> FALSE]
NoHighlight == [ref |-> 0, ids |-> <<>>]

\* a layer another party attached before this component mounted
PreLayer(i) == [id |-> i, gen |-> 0, src |-> FALSE]

\* the layer loadLayer builds for the settings: it carries the settings' id
LoadedLayer(settings, g, s) == [id |-> settings.id, gen |-> g, src |-> s]

\* arrays are compared by identity in the source: ref is the array's identity
HighlightInputs ==
  { NoHighlight, [ref |-> 1, ids |-> <<1>>], [ref |-> 2, ids |-> <<1>>] }
Selections == { <<>>, <<7>> }

\* Layer.propTypes: the recognized keys and the other props.  Of the
\* recognized keys the model carries id, layerType, one that is never null
\* (visible) and two that may be null (url, opacity); the others are read by
\* getLayerSettings and componentDidUpdate in the same way.
layerSettingsProps == {"id", "layerType", "visible", "url", "opacity"}
PropKeys == layerSettingsProps \cup {"refresh", "highlight", "children", "view", "selection"}

\* props[key] !== null && props[key] !== undefined, negated
IsNull(k, v) ==
  CASE k \in {"opacity", "refresh"} -> v \in {NullNum, UndefNum}
    [] k = "url" -> v \in {NullStr, UndefStr}
    [] OTHER -> FALSE

\* getLayerSettings without its rule for point-cloud layers
getLayerSettings_KeepsOpacity(p) ==
  [k \in { k \in layerSettingsProps : ~IsNull(k, p[k]) } |-> p[k]]

getLayerSettings(p) ==
  LET keep == { k \in layerSettingsProps :
                  /\ (p.layerType # "point-cloud" \/ k # "opacity")
                  /\ ~IsNull(k, p[k]) }
  IN [k \in keep |-> p[k]]

\* ---------------------------------------------------------------- state
VARIABLES
  phase,               \* "new" | "mounted" | "unmounted": React's view of the instance
  props,               \* this.props
  prevProps,           \* the props before the last update
  state,               \* this.state: layer, layerView, highlights
  componentIsMounted,  \* this.componentIsMounted
  pc,                  \* where load() is
  lv,                  \* load()'s locals: view, layerSettings, layer, layerView
  layers,              \* view.map.layers of every view
  liveHL,              \* highlight sets obtained and not yet removed
  calls,               \* the collaborator calls of the last step, in order
  dispatch,            \* the applyUpdates argument lists of the last step
  peakLive,            \* most highlight sets live at once during the last step
  hist,                \* per mount: counts of calls, and what happened after unmount
  mounts, updates      \* bound counters

lvars == << phase, props, prevProps, state, componentIsMounted, pc, lv, layers,
            liveHL, calls, dispatch, peakLive, hist, mounts, updates >>

\* --------------------------------------------------- DrawingTool: state
VARIABLES
  tphase,     \* "new" | "mounted" | "unmounted": React's view of the instance
  tprops,     \* this.props: geometry, geometryType, mode
  tpc,        \* where componentDidMount is
  tgeometry,  \* componentDidMount's local `geometry`
  inst,       \* which of this.layer, this.model, this.onCreate, this.onUpdate are set
  engine,     \* the SketchViewModel: its subscriptions, its operation, its target
  attached,   \* the GraphicsLayer is in view.map
  graphics,   \* this.layer.graphics.items
  tcalls,     \* the collaborator calls of the last step, in order
  thist,      \* what happened so far: engines created and destroyed, event counts
  tupdates, events   \* bound counters

tvars == << tphase, tprops, tpc, tgeometry, inst, engine, attached, graphics,
            tcalls, thist, tupdates, events >>


\* ------------------------------------------- pure functions: state
VARIABLES
  fin,        \* the arguments a pure function is applied to
  fout,       \* its result
  fdone       \* whether it has been applied

fvars == << fin, fout, fdone >>

vars == << lvars, tvars, fvars >>

\* ------------------------------------------------ Layer: initial state
NoProps ==
  [id |-> LayerId, layerType |-> "feature", visible |-> TRUE, url |-> NullStr,
   opacity |-> NullNum,
   refresh |-> NullNum, highlight |-> NoHighlight, children |-> 0, view |-> NoView,
   selection |-> <<>>]

InitialState == [layer |-> NoHandle, layerView |-> NoLayerView, highlights |-> NoHL]

NoLocals == [view |-> NoView, layerSettings |-> getLayerSettings(NoProps),
             layer |-> NoHandle, layerView |-> NoLayerView]

NoHist ==
  [add |-> 0, remove |-> 0, onLoad |-> 0, loader |-> 0, whenLayerView |-> 0,
   reused |-> FALSE, unmountAt |-> "none", after |-> {}, removeAfter |-> 0,
   stateAtUnmount |-> InitialState, step |-> "none", resolved |-> {}]

LayerInit ==
  /\ phase = "new"
  /\ props = NoProps
  /\ prevProps = NoProps
  /\ state = InitialState
  /\ componentIsMounted = FALSE
  /\ pc = "idle"
  /\ lv = NoLocals
  /\ layers \in { [v \in Views |-> IF v = "v1" THEN s ELSE {}] :
                    s \in { {}, {PreLayer("a")}, {PreLayer("b")} } }
  /\ liveHL = {}
  /\ calls = <<>>
  /\ dispatch = <<>>
  /\ peakLive = 0
  /\ hist = NoHist
  /\ mounts = 0
  /\ updates = 0

\* ------------------------------------------------------- helpers (Layer)
Range(s) == { s[i] : i \in 1..Len(s) }
Count(s, c) == Cardinality({ i \in 1..Len(s) : s[i] = c })

\* hist after a step that made the calls cs; after: the step ran after unmount
Track(h, cs, after) ==
  [h EXCEPT !.add = @ + Count(cs, "add"),
            !.remove = @ + Count(cs, "remove"),
            !.onLoad = @ + Count(cs, "onLoad"),
            !.loader = @ + Count(cs, "loadLayer"),
            !.whenLayerView = @ + Count(cs, "whenLayerView"),
            !.after = IF after THEN @ \cup Range(cs) ELSE @,
            !.removeAfter = IF after THEN @ + Count(cs, "remove") ELSE @]

\* hist of the step `name`, and of the step that runs when await `a` resolves
Step(h, name) == [h EXCEPT !.step = name]
Resolved(h, name, a) == [h EXCEPT !.step = name, !.resolved = @ \cup {a}]

\* view.map.layers.items.find(l => l.id === layerSettings.id)
FindExisting(items, id) == { l \in items : l.id = id }

\* line 158 without its check of the still-mounted flag
Line158Returns_IgnoresUnmount(mounted, layer) == layer = NoHandle

\* line 158 without its check of the loader's result
Line158Returns_IgnoresNull(mounted, layer) == ~mounted

\* if (!this.componentIsMounted || !layer) return;
Line158Returns(mounted, layer) == ~mounted \/ layer = NoHandle

\* if (!this.componentIsMounted) { view.map.remove(layer); return; }
Line165Aborts(mounted) == ~mounted

\* a handle for the highlight set layerView.highlight() returns
FreshHL(live) == CHOOSE n \in 1..(Cardinality(live) + 1) : n \notin live

\* static getDerivedStateFromProps(props, state): the new highlights, the
\* calls it makes in order, and the engine's live highlight sets
getDerivedStateFromProps(p, st, live) ==
  LET install == /\ Len(p.highlight.ids) > 0
                 /\ st.layerView # NoLayerView
                 /\ st.layerView.canHL
      new == IF install THEN FreshHL(live) ELSE NoHL
      live1 == IF install THEN live \cup {new} ELSE live
      release == st.highlights # NoHL
      live2 == IF release THEN live1 \ {st.highlights} ELSE live1
  IN [highlights |-> new,
      live |-> live2,
      peak |-> IF Cardinality(live1) > Cardinality(live2)
               THEN Cardinality(live1) ELSE Cardinality(live2),
      calls |-> (IF install THEN <<"highlight">> ELSE <<>>)
                \o (IF release THEN <<"hl.remove">> ELSE <<>>)]

\* the diff taken over the recognized keys and the refresh counter only
PropsDiffer_RecognizedOnly(prev, next) ==
  \E k \in layerSettingsProps \cup {"refresh"} : prev[k] # next[k]

\* Object.keys(prevProps).find(key => prevProps[key] !== this.props[key])
PropsDiffer(prev, next) == \E k \in PropKeys : prev[k] # next[k]

\* componentDidUpdate(prevProps): its calls and what it hands applyUpdates
componentDidUpdate(prev, next, st) ==
  IF st.layer = NoHandle \/ ~PropsDiffer(prev, next)
  THEN [calls |-> <<>>, dispatch |-> <<>>]
  ELSE [calls |-> (IF next.refresh # prev.refresh THEN <<"refresh">> ELSE <<>>)
                  \o <<"applyUpdates">>,
        dispatch |-> << [prev |-> prev, next |-> next,
                         layer |-> st.layer, layerView |-> st.layerView] >>]

\* positions of load() from which it never continues
Terminal == {"noView", "returned158", "returned165", "done", "threw", "rejected"}
Awaiting == {"loader", "whenLayerView", "when", "applyUpdates"}

\* the props a component is mounted with
MountProps ==
  { [NoProps EXCEPT !.view = v, !.highlight = h, !.selection = s] :
      v \in {NoView, "v1"},
      h \in {NoHighlight, [ref |-> 1, ids |-> <<1>>]}, s \in Selections }

\* the values an update can give a prop
PropValues(k) ==
  CASE k = "visible" -> BOOLEAN
    [] k = "refresh" -> {NullNum, 1}
    [] k = "highlight" -> HighlightInputs
    [] k = "children" -> {0, 1}
    [] k = "view" -> Views
UpdatableKeys == {"visible", "refresh", "highlight", "children", "view"}

\* ---------------------------------------------------------- actions (Layer)
\* load() from line 158 on, once `layer` is known; pre: the calls made so
\* far; after: the step runs after unmount
Line158(mounted, view, layer, pre, h, after) ==
  /\ IF Line158Returns(mounted, layer)
     THEN /\ pc' = "returned158"
          /\ layers' = layers
          /\ calls' = pre
     ELSE /\ pc' = "whenLayerView"
          /\ layers' = [layers EXCEPT ![view] = @ \cup {layer}]
          /\ calls' = pre \o <<"add", "whenLayerView">>
  /\ hist' = Track(h, calls', after)

\* constructor, first render, componentDidMount and load() up to its first await
Mount(p) ==
  /\ UNCHANGED << tvars, fvars >>
  /\ mounts < MaxMounts
  /\ phase = "new" \/ (phase = "unmounted" /\ pc \in Terminal)
  /\ mounts' = mounts + 1
  /\ updates' = 0
  /\ phase' = "mounted"
  /\ componentIsMounted' = TRUE
  /\ props' = p
  /\ prevProps' = p
  /\ LET g == getDerivedStateFromProps(p, InitialState, {})
     IN /\ state' = [InitialState EXCEPT !.highlights = g.highlights]
        /\ liveHL' = g.live
        /\ peakLive' = g.peak
  /\ dispatch' = <<>>
  /\ LET settings == getLayerSettings(p)
         existing == IF p.view = NoView THEN {}
                     ELSE FindExisting(layers[p.view], settings.id)
     IN IF p.view = NoView
        THEN /\ pc' = "noView"
             /\ lv' = [NoLocals EXCEPT !.layerSettings = settings]
             /\ calls' = <<>>
             /\ hist' = Step(NoHist, "Mount")
             /\ layers' = layers
        ELSE IF existing # {}
        THEN \E l \in existing :
               /\ lv' = [view |-> p.view, layerSettings |-> settings,
                         layer |-> l, layerView |-> NoLayerView]
               /\ Line158(TRUE, p.view, l, <<>>,
                          [NoHist EXCEPT !.reused = TRUE, !.step = "Mount"], FALSE)
        ELSE /\ pc' = "loader"
             /\ lv' = [view |-> p.view, layerSettings |-> settings,
                       layer |-> NoHandle, layerView |-> NoLayerView]
             /\ calls' = <<"loadLayer">>
             /\ hist' = Track(Step(NoHist, "Mount"), calls', FALSE)
             /\ layers' = layers

\* loadLayer(layerSettings) resolves with a layer or with nothing
LoaderResolve(result) ==
  /\ UNCHANGED << tvars, fvars >>
  /\ pc = "loader"
  /\ lv' = [lv EXCEPT !.layer = result]
  /\ Line158(componentIsMounted, lv.view, result, <<>>,
             Resolved(hist, "LoaderResolve", "loader"), phase = "unmounted")
  /\ dispatch' = <<>>
  /\ UNCHANGED << phase, props, prevProps, state, componentIsMounted, liveHL,
                  peakLive, mounts, updates >>

\* an awaited promise rejects: load() ends with an unhandled rejection
Reject ==
  /\ UNCHANGED << tvars, fvars >>
  /\ pc \in Awaiting
  /\ pc' = "rejected"
  /\ calls' = <<>>
  /\ dispatch' = <<>>
  /\ hist' = Step(hist, "Reject")
  /\ UNCHANGED << phase, props, prevProps, state, componentIsMounted, lv, layers,
                  liveHL, peakLive, mounts, updates >>

\* view.whenLayerView(layer) resolves
LayerViewResolve(c) ==
  /\ UNCHANGED << tvars, fvars >>
  /\ pc = "whenLayerView"
  /\ lv' = [lv EXCEPT !.layerView = [h |-> lv.layer, canHL |-> c]]
  /\ IF Line165Aborts(componentIsMounted)
     THEN /\ pc' = "returned165"
          /\ layers' = [layers EXCEPT ![lv.view] = @ \ {lv.layer}]
          /\ calls' = <<"remove">>
     ELSE /\ pc' = "when"
          /\ layers' = layers
          /\ calls' = <<"when">>
  /\ hist' = Track(Resolved(hist, "LayerViewResolve", "whenLayerView"), calls',
                   phase = "unmounted")
  /\ dispatch' = <<>>
  /\ UNCHANGED << phase, props, prevProps, state, componentIsMounted, liveHL,
                  peakLive, mounts, updates >>

\* layer.when() resolves: applyUpdates(layerSettings, this.props,
\* this.state.layer, this.state.layerView) is called
WhenResolve ==
  /\ UNCHANGED << tvars, fvars >>
  /\ pc = "when"
  /\ pc' = "applyUpdates"
  /\ calls' = <<"applyUpdates">>
  /\ dispatch' = << [prev |-> lv.layerSettings, next |-> props,
                     layer |-> state.layer, layerView |-> state.layerView] >>
  /\ hist' = Track(Resolved(hist, "WhenResolve", "when"), calls', phase = "unmounted")
  /\ UNCHANGED << phase, props, prevProps, state, componentIsMounted, lv, layers,
                  liveHL, peakLive, mounts, updates >>

\* this.setState(patched) with React's re-render: a no-op once the component is
\* unmounted; otherwise getDerivedStateFromProps runs on the patched state and
\* its result is merged over it, then componentDidUpdate(this.props) runs
SetState(st, patched, live, p, reactMounted) ==
  IF ~reactMounted
  THEN [state |-> st, live |-> live, peak |-> Cardinality(live),
        calls |-> <<>>, dispatch |-> <<>>]
  ELSE LET g == getDerivedStateFromProps(p, patched, live)
           st2 == [patched EXCEPT !.highlights = g.highlights]
           u == componentDidUpdate(p, p, st2)
       IN [state |-> st2, live |-> g.live, peak |-> g.peak,
           calls |-> g.calls \o u.calls, dispatch |-> u.dispatch]

\* applyUpdates resolves: lines 173-182 of load()
ApplyUpdatesResolve ==
  /\ UNCHANGED << tvars, fvars >>
  /\ pc = "applyUpdates"
  /\ IF Len(props.selection) > 0 /\ state.layerView = NoLayerView
     THEN \* this.state.layerView.highlight(...) on null: a TypeError ends load()
          /\ pc' = "threw"
          /\ calls' = <<>>
          /\ dispatch' = <<>>
          /\ UNCHANGED << state, liveHL, peakLive >>
     ELSE LET sel == Len(props.selection) > 0
              new == FreshHL(liveHL)
              a == IF sel
                   THEN SetState(state, [state EXCEPT !.highlights = new],
                                 liveHL \cup {new}, props, phase = "mounted")
                   ELSE [state |-> state, live |-> liveHL,
                         peak |-> Cardinality(liveHL), calls |-> <<>>, dispatch |-> <<>>]
              b == SetState(a.state,
                            [a.state EXCEPT !.layer = lv.layer, !.layerView = lv.layerView],
                            a.live, props, phase = "mounted")
          IN /\ pc' = "done"
             /\ state' = b.state
             /\ liveHL' = b.live
             /\ peakLive' = IF a.peak > b.peak THEN a.peak ELSE b.peak
             /\ calls' = (IF sel THEN <<"highlight">> ELSE <<>>)
                         \o a.calls \o b.calls \o <<"onLoad">>
             /\ dispatch' = a.dispatch \o b.dispatch
  /\ hist' = Track(Resolved(hist, "ApplyUpdatesResolve", "applyUpdates"), calls',
                   phase = "unmounted")
  /\ UNCHANGED << phase, props, prevProps, componentIsMounted, lv, layers,
                  mounts, updates >>

\* componentWillUnmount()
Unmount ==
  /\ UNCHANGED << tvars, fvars >>
  /\ phase = "mounted"
  /\ phase' = "unmounted"
  /\ componentIsMounted' = FALSE
  /\ IF state.layer = NoHandle
     THEN /\ calls' = <<>>
          /\ layers' = layers
     ELSE /\ calls' = (IF state.layer.src THEN <<"source.removeAll">> ELSE <<>>)
                      \o <<"remove">>
          /\ layers' = [layers EXCEPT ![props.view] = @ \ {state.layer}]
  /\ hist' = [Track(Step(hist, "Unmount"), calls', FALSE)
                EXCEPT !.unmountAt = pc, !.stateAtUnmount = state]
  /\ dispatch' = <<>>
  /\ UNCHANGED << props, prevProps, state, pc, lv, liveHL, peakLive, mounts, updates >>

\* the parent renders the component again with prop k set to v: getDerived-
\* StateFromProps, render, componentDidUpdate(prevProps)
UpdateProps(k, v) ==
  /\ UNCHANGED << tvars, fvars >>
  /\ phase = "mounted"
  /\ updates < MaxUpdates
  /\ k = "view" => props.view # NoView
  /\ updates' = updates + 1
  /\ prevProps' = props
  /\ props' = [props EXCEPT ![k] = v]
  /\ LET g == getDerivedStateFromProps(props', state, liveHL)
         st2 == [state EXCEPT !.highlights = g.highlights]
         u == componentDidUpdate(props, props', st2)
     IN /\ state' = st2
        /\ liveHL' = g.live
        /\ peakLive' = g.peak
        /\ calls' = g.calls \o u.calls
        /\ dispatch' = u.dispatch
  /\ hist' = Track(Step(hist, "UpdateProps"), calls', FALSE)
  /\ UNCHANGED << phase, componentIsMounted, pc, lv, layers, mounts >>

LayerNext ==
  \/ \E p \in MountProps : Mount(p)
  \/ \E s \in BOOLEAN : LoaderResolve(LoadedLayer(lv.layerSettings, mounts, s))
  \/ LoaderResolve(NoHandle)
  \/ Reject
  \/ \E c \in BOOLEAN : LayerViewResolve(c)
  \/ WhenResolve
  \/ ApplyUpdatesResolve
  \/ Unmount
  \/ \E k \in UpdatableKeys : \E v \in PropValues(k) : UpdateProps(k, v)


\* ================================================== DrawingTool: values
NoGeometry == [type |-> "null", reset |-> FALSE, ref |-> 0]
Geometries ==
  { NoGeometry,
    [type |-> "polygon", reset |-> FALSE, ref |-> 1],
    [type |-> "polygon", reset |-> TRUE, ref |-> 2],
    [type |-> "point", reset |-> FALSE, ref |-> 3],
    [type |-> "extent", reset |-> TRUE, ref |-> 4] }
GeometryTypes == {"polygon", "point"}
Modes == {"click"}

\* the geometry of the graphic a completed create operation hands the handler
Drawn(type) == [type |-> type, reset |-> FALSE, ref |-> 9]

\* isValidGeometry with 'polygon' missing from its list of types
isValidGeometry_NoPolygon(geometry) ==
  geometry # NoGeometry /\ geometry.type \in {"point", "multipoint", "polyline"}

\* const isValidGeometry = geometry => geometry && [...].includes(geometry.type)
isValidGeometry(geometry) ==
  geometry # NoGeometry /\ geometry.type \in {"point", "multipoint", "polyline", "polygon"}

\* getSymbol(type)
getSymbol(type) ==
  CASE type \in {"point", "multipoint"} -> "pointSymbol"
    [] type = "polygon" -> "polygonSymbol"
    [] type = "polyline" -> "polylineSymbol"
    [] OTHER -> "polygonSymbol"

NoGraphic == [geometry |-> NoGeometry, symbol |-> "none"]

\* one call on a collaborator, with what it is given
Call(op) ==
  [op |-> op, graphic |-> NoGraphic, type |-> "none", mode |-> "none", area |-> 0]
CallOn(op, g) ==
  [op |-> op, graphic |-> g, type |-> "none", mode |-> "none", area |-> 0]
\* this.props.onDraw({ geometry: g.geometry, area: 1 })
Report(g) ==
  [op |-> "onDraw", graphic |-> g, type |-> "none", mode |-> "none", area |-> 1]
Ops(cs) == [i \in 1..Len(cs) |-> cs[i].op]

\* ------------------------------------------ DrawingTool: initial state
NoInst == [layer |-> FALSE, model |-> FALSE, onCreate |-> FALSE, onUpdate |-> FALSE]
NoEngine == [exists |-> FALSE, destroyed |-> FALSE, subCreate |-> FALSE,
             subUpdate |-> FALSE, op |-> "none", target |-> NoGraphic]
NoToolProps == [geometry |-> NoGeometry, geometryType |-> "polygon", mode |-> "click"]
NoToolHist == [step |-> "none", unmountAt |-> "none", unmountOp |-> "none",
               after |-> {}, prevGeometry |-> NoGeometry, opBefore |-> "none",
               graphicsBefore |-> 0, surfaceBefore |-> <<>>, event |-> "none",
               eventGraphic |-> NoGraphic]

ToolInit ==
  /\ tphase = "new"
  /\ tprops = NoToolProps
  /\ tpc = "idle"
  /\ tgeometry = NoGeometry
  /\ inst = NoInst
  /\ engine = NoEngine
  /\ attached = FALSE
  /\ graphics = <<>>
  /\ tcalls = <<>>
  /\ thist = NoToolHist
  /\ tupdates = 0
  /\ events = 0

\* ------------------------------------------------- DrawingTool: helpers
\* a method's effect: the calls it makes, the surface and the engine after it
Eff(cs, gs, e) == [calls |-> cs, graphics |-> gs, engine |-> e]

\* createGraphic(): this.model.create(this.props.geometryType, { mode })
createGraphic(p, gs, e) ==
  Eff(<< [op |-> "create", graphic |-> NoGraphic, type |-> p.geometryType,
          mode |-> p.mode, area |-> 0] >>,
      gs, [e EXCEPT !.op = "drawing", !.target = NoGraphic])

\* setGraphic(geometry): add the graphic, reshape graphics.items[0]
setGraphic(geometry, gs, e) ==
  LET gs2 == Append(gs, [geometry |-> geometry, symbol |-> getSymbol(geometry.type)])
  IN Eff(<< CallOn("graphics.add", gs2[Len(gs2)]), CallOn("update", gs2[1]) >>,
         gs2, [e EXCEPT !.op = "editing", !.target = gs2[1]])

\* resetGraphic without its removeAll
resetGraphic_KeepsGraphics(gs, e) ==
  Eff(<< Call("cancel") >>, gs, [e EXCEPT !.op = "idle", !.target = NoGraphic])

\* resetGraphic(): this.model.cancel(); this.layer.graphics.removeAll()
resetGraphic(gs, e) ==
  Eff(<< Call("cancel"), Call("graphics.removeAll") >>,
      <<>>, [e EXCEPT !.op = "idle", !.target = NoGraphic])

\* onCancel without its test of the caller's geometry
onCancel_AlwaysCreates(p, gs, e) == createGraphic(p, gs, e)

\* onCancel()
onCancel(p, gs, e) ==
  IF p.geometry # NoGeometry /\ p.geometry.reset
  THEN Eff(<<>>, gs, e)
  ELSE createGraphic(p, gs, e)

\* the teardown with cancel issued before complete
TeardownCalls_CancelFirst ==
  << Call("cancel"), Call("complete"), Call("reset"), Call("destroy") >>

\* the edit-engine calls of componentWillUnmount, in its order
TeardownCalls == << Call("complete"), Call("cancel"), Call("reset"), Call("destroy") >>

\* componentDidUpdate's first branch: prevProps.geometry !== null && geometry === null
BecameNull(prev, geometry) == prev # NoGeometry /\ geometry = NoGeometry

\* componentDidUpdate's second branch: isValidGeometry(geometry) && geometry.reset
ResetEligible(geometry) == isValidGeometry(geometry) /\ geometry.reset

\* the update handler reporting only the end of an update
UpdateReports_CompleteOnly(st) == st = "complete"

\* the update handler's test: event.state === 'active' || 'complete'
UpdateReports(st) == st \in {"active", "complete"}

\* the editor's state as the spec names it
EditorState(e) == IF e.exists THEN e.op ELSE "uninitialized"

\* thist of the step `name` that made the calls cs
TrackTool(h, name, cs, after, prev, e, gs) ==
  [h EXCEPT !.step = name,
            !.after = IF after THEN @ \cup Range(Ops(cs)) ELSE @,
            !.prevGeometry = prev,
            !.opBefore = EditorState(e),
            !.graphicsBefore = Len(gs),
            !.surfaceBefore = gs,
            !.event = "none",
            !.eventGraphic = NoGraphic]

\* ------------------------------------------------- DrawingTool: actions
ToolMountProps ==
  { [geometry |-> g, geometryType |-> t, mode |-> m] :
      g \in Geometries, t \in GeometryTypes, m \in Modes }

\* componentDidMount() up to its await of esriLoader.loadModules
ToolMount(p) ==
  /\ UNCHANGED << lvars, fvars >>
  /\ tphase = "new"
  /\ tphase' = "mounted"
  /\ tprops' = p
  /\ tgeometry' = p.geometry
  /\ tpc' = "loadModules"
  /\ tcalls' = << Call("loadModules") >>
  /\ thist' = TrackTool(thist, "ToolMount", tcalls', FALSE, NoGeometry, engine, graphics)
  /\ UNCHANGED << inst, engine, attached, graphics, tupdates, events >>

\* loadModules rejects: componentDidMount ends with an unhandled rejection
ToolReject ==
  /\ UNCHANGED << lvars, fvars >>
  /\ tpc = "loadModules"
  /\ tpc' = "rejected"
  /\ tcalls' = <<>>
  /\ thist' = TrackTool(thist, "ToolReject", tcalls', tphase = "unmounted",
                        tprops.geometry, engine, graphics)
  /\ UNCHANGED << tphase, tprops, tgeometry, inst, engine, attached, graphics,
                  tupdates, events >>

\* loadModules resolves: lines 33-66 of componentDidMount
ModulesResolve ==
  /\ UNCHANGED << lvars, fvars >>
  /\ tpc = "loadModules"
  /\ tpc' = "done"
  /\ inst' = [layer |-> TRUE, model |-> TRUE, onCreate |-> TRUE, onUpdate |-> TRUE]
  /\ attached' = TRUE
  /\ LET e0 == [exists |-> TRUE, destroyed |-> FALSE, subCreate |-> TRUE,
                subUpdate |-> TRUE, op |-> "idle", target |-> NoGraphic]
         r == IF isValidGeometry(tgeometry)
              THEN setGraphic(tgeometry, <<>>, e0)
              ELSE createGraphic(tprops, <<>>, e0)
     IN /\ tcalls' = << Call("map.add"), Call("on.create"), Call("on.update") >>
                     \o r.calls
        /\ graphics' = r.graphics
        /\ engine' = r.engine
  /\ thist' = TrackTool(thist, "ModulesResolve", tcalls', tphase = "unmounted",
                        tprops.geometry, engine, graphics)
  /\ UNCHANGED << tphase, tprops, tgeometry, tupdates, events >>

\* the parent renders the component again with geometry g: componentDidUpdate
ToolUpdateProps(g) ==
  /\ UNCHANGED << lvars, fvars >>
  /\ tphase = "mounted"
  /\ tupdates < MaxUpdates
  /\ tupdates' = tupdates + 1
  /\ tprops' = [tprops EXCEPT !.geometry = g]
  /\ LET prev == tprops.geometry
         r == IF ~inst.model THEN Eff(<<>>, graphics, engine)
              ELSE IF BecameNull(prev, g)
              THEN LET a == resetGraphic(graphics, engine)
                       b == createGraphic(tprops', a.graphics, a.engine)
                   IN Eff(a.calls \o b.calls, b.graphics, b.engine)
              ELSE IF ResetEligible(g)
              THEN LET a == resetGraphic(graphics, engine)
                       b == setGraphic(g, a.graphics, a.engine)
                   IN Eff(a.calls \o b.calls, b.graphics, b.engine)
              ELSE Eff(<<>>, graphics, engine)
     IN /\ tcalls' = r.calls
        /\ graphics' = r.graphics
        /\ engine' = r.engine
  /\ thist' = TrackTool(thist, "ToolUpdateProps", tcalls', FALSE,
                        tprops.geometry, engine, graphics)
  /\ UNCHANGED << tphase, tpc, tgeometry, inst, attached, events >>

\* componentWillUnmount()
ToolUnmount ==
  /\ UNCHANGED << lvars, fvars >>
  /\ tphase = "mounted"
  /\ tphase' = "unmounted"
  /\ tcalls' = (IF inst.onCreate THEN << Call("onCreate.remove") >> ELSE <<>>)
               \o (IF inst.onUpdate THEN << Call("onUpdate.remove") >> ELSE <<>>)
               \o (IF inst.model THEN TeardownCalls ELSE <<>>)
               \o (IF inst.layer THEN << Call("map.remove") >> ELSE <<>>)
  /\ engine' = IF inst.model
               THEN [engine EXCEPT !.destroyed = "destroy" \in Range(Ops(TeardownCalls)),
                                   !.subCreate = FALSE, !.subUpdate = FALSE,
                                   !.op = "none", !.target = NoGraphic]
               ELSE engine
  /\ attached' = IF inst.layer THEN FALSE ELSE attached
  /\ thist' = [TrackTool(thist, "ToolUnmount", tcalls', FALSE,
                         tprops.geometry, engine, graphics)
                 EXCEPT !.unmountAt = tpc, !.unmountOp = EditorState(engine)]
  /\ UNCHANGED << tprops, tpc, tgeometry, inst, graphics, tupdates, events >>

\* the engine emits a create event while a create operation is active:
\* the handler of lines 41-51
CreateEvent(st) ==
  /\ UNCHANGED << lvars, fvars >>
  /\ engine.subCreate
  /\ engine.op = "drawing"
  /\ events < MaxEvents
  /\ events' = events + 1
  /\ LET created == [geometry |-> Drawn(tprops.geometryType),
                     symbol |-> getSymbol(tprops.geometryType)]
         r == CASE st = "complete" ->
                     \* the engine has put the finished graphic on its layer
                     Eff(<< Report(created), CallOn("update", created) >>,
                         Append(graphics, created),
                         [engine EXCEPT !.op = "editing", !.target = created])
                [] st = "cancel" ->
                     onCancel(tprops, graphics, [engine EXCEPT !.op = "idle"])
                [] OTHER -> Eff(<<>>, graphics, engine)
     IN /\ tcalls' = r.calls
        /\ graphics' = r.graphics
        /\ engine' = r.engine
  /\ thist' = [TrackTool(thist, "CreateEvent", tcalls', tphase = "unmounted",
                         tprops.geometry, engine, graphics)
                 EXCEPT !.event = st,
                        !.eventGraphic = [geometry |-> Drawn(tprops.geometryType),
                                          symbol |-> getSymbol(tprops.geometryType)]]
  /\ UNCHANGED << tphase, tprops, tpc, tgeometry, inst, attached, tupdates >>

\* the engine emits an update event while an update operation is active:
\* the handler of lines 53-60
UpdateEvent(st) ==
  /\ UNCHANGED << lvars, fvars >>
  /\ engine.subUpdate
  /\ engine.op = "editing"
  /\ events < MaxEvents
  /\ events' = events + 1
  /\ tcalls' = IF UpdateReports(st) THEN << Report(engine.target) >> ELSE <<>>
  /\ engine' = IF st = "complete"
               THEN [engine EXCEPT !.op = "idle", !.target = NoGraphic]
               ELSE engine
  /\ thist' = [TrackTool(thist, "UpdateEvent", tcalls', tphase = "unmounted",
                         tprops.geometry, engine, graphics)
                 EXCEPT !.event = st, !.eventGraphic = engine.target]
  /\ UNCHANGED << tphase, tprops, tpc, tgeometry, inst, attached, graphics, tupdates >>

ToolNext ==
  \/ \E p \in ToolMountProps : ToolMount(p)
  \/ ToolReject
  \/ ModulesResolve
  \/ \E g \in Geometries : ToolUpdateProps(g)
  \/ ToolUnmount
  \/ \E st \in {"start", "active", "complete", "cancel"} : CreateEvent(st)
  \/ \E st \in {"start", "active", "complete"} : UpdateEvent(st)

\* ------------------------------------------------------- specifications
\* no pure function under way
FnIdle == fin = <<>> /\ fout = <<>> /\ fdone = FALSE

Init == LayerInit /\ ToolInit /\ FnIdle

\* the Layer Lifecycle Manager
Spec == Init /\ [][LayerNext]_vars

\* the Interactive Geometry Editor
ToolStart == Init /\ layers = [v \in Views |-> {}]
ToolSpec == ToolStart /\ [][ToolNext]_vars

\* -------------------------------------------------- Settings Extractor
\* the props getLayerSettings is applied to
SettingsInputs ==
  { [NoProps EXCEPT !.layerType = t, !.visible = v, !.url = u, !.opacity = o,
                    !.refresh = r, !.highlight = h] :
      t \in LayerTypes, v \in BOOLEAN, u \in {NullStr, UndefStr, "u"},
      o \in {NullNum, UndefNum, 0, 5}, r \in {NullNum, 1},
      h \in {NoHighlight, [ref |-> 1, ids |-> <<1>>]} }

SettingsStart ==
  /\ LayerInit /\ layers = [v \in Views |-> {}]
  /\ ToolInit
  /\ fin \in SettingsInputs
  /\ fout = <<>>
  /\ fdone = FALSE

\* const layerSettings = getLayerSettings(this.props)
ApplyGetLayerSettings ==
  /\ ~fdone
  /\ fdone' = TRUE
  /\ fout' = getLayerSettings(fin)
  /\ UNCHANGED << fin, lvars, tvars >>

SettingsSpec == SettingsStart /\ [][ApplyGetLayerSettings]_vars

\* ============================================================== claims
\* ---------------------------------------------- Layer Lifecycle Manager

\* C1: when unmount happens while the loader's promise is pending, no add to
\* the layer collection is ever made for that mount; and whenever load()
\* observes the cleared flag holding a handle (at line 158 or at line 165),
\* that handle is not in the layer collection afterwards: at line 158 it was
\* never added, at line 165 it is removed by a remove call.
C1_UnmountBeforeLoaderNeverAdds ==
  /\ hist.unmountAt = "loader" => hist.add = 0
  /\ (pc = "returned158" /\ ~componentIsMounted /\ lv.layer # NoHandle)
       => (hist.add = 0 /\ lv.layer \notin layers[lv.view])
  /\ pc = "returned165"
       => (hist.remove = 1 /\ lv.layer \notin layers[lv.view])

C1_Witness ==
  /\ hist.unmountAt = "loader"
  /\ hist.step = "LoaderResolve"
  /\ pc = "returned158"
  /\ lv.layer # NoHandle

\* C2: after unmount the manager stores no handle, view object or highlight
\* set in its state, invokes neither the update dispatcher nor onLoad, and
\* makes no call but at most one removal of the handle.
C2_NoEffectAfterUnmount ==
  phase = "unmounted" =>
    /\ state = hist.stateAtUnmount
    /\ hist.after \subseteq {"remove"}
    /\ hist.removeAfter <= 1

\* C3: once unmount has happened and load() has ended with every awaited
\* step completed (none rejected), the handle this manager added is out of
\* the layer collection and its removal was issued exactly once.
C3_NoLeakedHandle ==
  (phase = "unmounted" /\ pc \in {"returned158", "returned165", "done"}
     /\ hist.add >= 1) =>
    /\ lv.layer \notin layers[lv.view]
    /\ hist.remove = 1

\* C4: at most one highlight set is live at any instant, and a replacement
\* calls the prior set's remove before it calls highlight.
C4_ReleaseBeforeInstall ==
  /\ peakLive <= 1
  /\ \A i, j \in 1..Len(calls) :
       (calls[i] = "highlight" /\ calls[j] = "hl.remove") => j < i

C6_ReuseWithoutAdd ==
  hist.reused =>
    /\ hist.loader = 0
    /\ hist.add = 0
    /\ (componentIsMounted /\ pc \in Terminal) => (pc = "done" /\ hist.onLoad = 1)

\* C7: when no view is supplied or the loader yields no handle, load() halts:
\* no add, no view-object request, nothing stored, no highlight set, no
\* onLoad and no second loader call; and in every run onLoad is invoked at
\* most once per mount, and only after the add, the resolved view object,
\* the completed ready signal and the completed post-load dispatch.
C7_FailureHaltsAndOnLoadOnce ==
  /\ (props.view = NoView /\ phase # "new")
       \/ ("loader" \in hist.resolved /\ lv.layer = NoHandle)
       => /\ pc \in {"noView", "returned158"}
          /\ hist.add = 0 /\ hist.whenLayerView = 0 /\ hist.onLoad = 0
          /\ hist.loader <= 1
          /\ state = InitialState
          /\ liveHL = {}
          /\ \A v \in Views : lv.layer \notin layers[v]
  /\ hist.onLoad <= 1
  /\ hist.onLoad = 1
       => /\ pc = "done"
          /\ hist.add = 1
          /\ {"whenLayerView", "when", "applyUpdates"} \subseteq hist.resolved
          /\ lv.layer # NoHandle /\ lv.layerView.h = lv.layer

C7_Witness ==
  /\ hist.step = "LoaderResolve"
  /\ componentIsMounted
  /\ lv.layer = NoHandle
  /\ pc = "returned158"

\* ------------------------------------------ Interactive Geometry Editor
FullTeardown ==
  << "onCreate.remove", "onUpdate.remove", "complete", "cancel", "reset",
     "destroy", "map.remove" >>

\* C8 as stated: whatever state the editor is in at unmount, Uninitialized
\* included, teardown removes both subscriptions, then issues complete,
\* cancel, reset, destroy in that order, each once, then detaches the surface.
C8_TeardownOrderInEveryState ==
  thist.step = "ToolUnmount" => Ops(tcalls) = FullTeardown

\* C8 as amended: when the edit engine exists at unmount (idle, Drawing or
\* Editing), teardown removes both subscriptions, then issues complete,
\* cancel, reset, destroy in that order, each once, then detaches the
\* surface; when the editor is still Uninitialized, there is no edit engine
\* and teardown makes no call at all.
C8_TeardownOrderWhenInitialized ==
  thist.step = "ToolUnmount" =>
    /\ thist.unmountOp \in {"idle", "drawing", "editing"}
         => (Ops(tcalls) = FullTeardown /\ engine.destroyed /\ ~attached)
    /\ thist.unmountOp = "uninitialized" => tcalls = <<>>
    /\ thist.unmountOp \in {"idle", "drawing", "editing", "uninitialized"}

C8_Witness ==
  /\ thist.step = "ToolUnmount"
  /\ thist.unmountOp = "drawing"
  /\ Len(tcalls) = 7

\* C9: mount with a geometry of type point, multipoint, polyline or polygon,
\* reset-eligible or not, installs it on the scratch surface and reshapes
\* it, ending in Editing with no create issued; mount with no geometry or
\* one of another type issues exactly one create with the configured
\* geometry type and mode and installs nothing.
C9_InitialGeometry ==
  thist.step = "ModulesResolve" =>
    IF tgeometry # NoGeometry
       /\ tgeometry.type \in {"point", "multipoint", "polyline", "polygon"}
    THEN /\ Ops(tcalls) = << "map.add", "on.create", "on.update",
                              "graphics.add", "update" >>
         /\ Len(graphics) = 1
         /\ graphics[1].geometry = tgeometry
         /\ tcalls[4].graphic = graphics[1]
         /\ tcalls[5].graphic = graphics[1]
         /\ engine.op = "editing"
    ELSE /\ Ops(tcalls) = << "map.add", "on.create", "on.update", "create" >>
         /\ tcalls[4].type = tprops.geometryType
         /\ tcalls[4].mode = tprops.mode
         /\ graphics = <<>>
         /\ engine.op = "drawing"

C9_Witness ==
  /\ thist.step = "ModulesResolve"
  /\ tgeometry.type = "polygon"
  /\ ~tgeometry.reset
  /\ engine.op = "editing"
  /\ Len(graphics) = 1

\* C10: once mount has completed, a prop update that takes the geometry from
\* a valid geometry to null clears the scratch surface and issues a create
\* for the configured geometry type and mode, whatever state the editor was in.
C10_NullGeometryRestartsDrawing ==
  ( /\ thist.step = "ToolUpdateProps"
    /\ tpc = "done"
    /\ thist.prevGeometry # NoGeometry
    /\ thist.prevGeometry.type \in {"point", "multipoint", "polyline", "polygon"}
    /\ tprops.geometry = NoGeometry )
  => /\ graphics = <<>>
     /\ Ops(tcalls) = << "cancel", "graphics.removeAll", "create" >>
     /\ tcalls[3].type = tprops.geometryType
     /\ tcalls[3].mode = tprops.mode
     /\ engine.op = "drawing"

C10_Witness ==
  /\ thist.step = "ToolUpdateProps"
  /\ tpc = "done"
  /\ thist.prevGeometry.type = "polygon"
  /\ tprops.geometry = NoGeometry
  /\ thist.opBefore = "editing"
  /\ thist.graphicsBefore = 1
  /\ graphics = <<>>

\* --------------------------------------------------- Highlight Resolver
MaxIds == 2          \* length of the id sequences tried
MaxGraphics == 2     \* number of loaded feature graphics tried

\* a string is the sequence of its characters
Uuid1Text ==
  << "3", "f", "a", "8", "5", "f", "6", "4", "-", "5", "7", "1", "7", "-",
     "4", "5", "6", "2", "-", "b", "3", "f", "c", "-", "2", "c", "9", "6",
     "3", "f", "6", "6", "a", "f", "a", "6" >>
Uuid1UpperText ==
  << "3", "F", "A", "8", "5", "F", "6", "4", "-", "5", "7", "1", "7", "-",
     "4", "5", "6", "2", "-", "B", "3", "F", "C", "-", "2", "C", "9", "6",
     "3", "F", "6", "6", "A", "F", "A", "6" >>
Uuid2Text ==
  << "0", "e", "4", "a", "1", "c", "2", "b", "-", "9", "d", "3", "f", "-",
     "1", "a", "6", "b", "-", "8", "c", "7", "d", "-", "5", "e", "2", "f",
     "4", "a", "6", "b", "8", "c", "0", "d" >>
Version6Text ==
  << "3", "f", "a", "8", "5", "f", "6", "4", "-", "5", "7", "1", "7", "-",
     "6", "5", "6", "2", "-", "b", "3", "f", "c", "-", "2", "c", "9", "6",
     "3", "f", "6", "6", "a", "f", "a", "6" >>
VariantCText ==
  << "3", "f", "a", "8", "5", "f", "6", "4", "-", "5", "7", "1", "7", "-",
     "4", "5", "6", "2", "-", "c", "3", "f", "c", "-", "2", "c", "9", "6",
     "3", "f", "6", "6", "a", "f", "a", "6" >>

\* an id, an attribute value or null, as one record shape
Str(t) == [t |-> "str", s |-> t, n |-> 0]
Num(k) == [t |-> "num", s |-> <<>>, n |-> k]
NullId == [t |-> "null", s |-> <<>>, n |-> 0]

\* props.highlight entries: global ids, look-alikes and native row ids
MysteryIds ==
  { Str(Uuid1Text), Str(Uuid1UpperText), Str(Uuid2Text), Str(Version6Text),
    Str(VariantCText), Str(<< "4", "2" >>), Num(42) }

\* layerView.controller.graphics entries: attributes.GlobalID and
\* attributes[layerView.layer.objectIdField]
LoadedGraphics ==
  { [GlobalID |-> Str(Uuid1Text), OID |-> Num(7)],
    [GlobalID |-> Str(Uuid1Text), OID |-> Num(8)],
    [GlobalID |-> Str(Version6Text), OID |-> Num(10)],
    [GlobalID |-> Str(VariantCText), OID |-> Num(0)] }

SeqsUpTo(S, n) == UNION { [1..k -> S] : k \in 0..n }

DigitChars == << "0", "1", "2", "3", "4", "5", "6", "7", "8", "9" >>
HexChars ==
  { "0", "1", "2", "3", "4", "5", "6", "7", "8", "9", "a", "b", "c", "d",
    "e", "f", "A", "B", "C", "D", "E", "F" }

RECURSIVE Digits(_)
Digits(k) ==
  IF k < 10 THEN << DigitChars[k + 1] >>
            ELSE Digits(k \div 10) \o << DigitChars[(k % 10) + 1] >>

\* RegExp.prototype.test converts its argument to a string
ToText(id) == IF id.t = "num" THEN Digits(id.n) ELSE id.s

\* the pattern without its limits on the version and variant characters
IsUUID_AnyVersion(t) ==
  /\ Len(t) = 36
  /\ \A i \in 1..36 :
       IF i \in {9, 14, 19, 24} THEN t[i] = "-" ELSE t[i] \in HexChars

\* /^[0-9a-f]{8}-[0-9a-f]{4}-[1-5][0-9a-f]{3}-[89ab][0-9a-f]{3}-[0-9a-f]{12}$/i
IsUUID(t) ==
  /\ Len(t) = 36
  /\ \A i \in 1..36 :
       CASE i \in {9, 14, 19, 24} -> t[i] = "-"
         [] i = 15 -> t[i] \in {"1", "2", "3", "4", "5"}
         [] i = 20 -> t[i] \in {"8", "9", "a", "b", "A", "B"}
         [] OTHER -> t[i] \in HexChars

\* graphics.find(e => e.attributes.GlobalID === GlobalID), then the
\* attribute named by objectIdField, or null without a graphic
getOIDfromGlobalId(layerView, GlobalID) ==
  LET hits == { j \in 1..Len(layerView.graphics) :
                  layerView.graphics[j].GlobalID = GlobalID }
  IN IF hits = {} THEN NullId
     ELSE layerView.graphics[CHOOSE j \in hits : \A k \in hits : j <= k].OID

getHighlightOIDs(layerView, mysteryIds) ==
  [i \in 1..Len(mysteryIds) |->
     IF IsUUID(ToText(mysteryIds[i]))
     THEN getOIDfromGlobalId(layerView, mysteryIds[i])
     ELSE mysteryIds[i]]

HighlightStart ==
  /\ LayerInit /\ layers = [v \in Views |-> {}]
  /\ ToolInit
  /\ fin \in { [layerView |-> [graphics |-> gs], mysteryIds |-> ids] :
                 gs \in SeqsUpTo(LoadedGraphics, MaxGraphics),
                 ids \in SeqsUpTo(MysteryIds, MaxIds) }
  /\ fout = <<>>
  /\ fdone = FALSE

\* getHighlightOIDs(state.layerView, props.highlight)
ApplyGetHighlightOIDs ==
  /\ ~fdone
  /\ fdone' = TRUE
  /\ fout' = getHighlightOIDs(fin.layerView, fin.mysteryIds)
  /\ UNCHANGED << fin, lvars, tvars >>

HighlightSpec == HighlightStart /\ [][ApplyGetHighlightOIDs]_vars

\* --------------------------------------------------- Settings Extractor
\* C11: the key set of getLayerSettings(props) is exactly the recognized
\* keys whose value in props is neither null nor undefined, without
\* opacity when layerType is point-cloud even if supplied; every key is
\* mapped to its props value; refresh, highlight, view, children never appear.
C11_SettingsExactlyRecognizedNonNull ==
  fdone =>
    /\ DOMAIN fout =
         { k \in {"id", "layerType", "visible", "url", "opacity"} :
             /\ k = "url" => fin.url \notin {NullStr, UndefStr}
             /\ k = "opacity" => /\ fin.opacity \notin {NullNum, UndefNum}
                                 /\ fin.layerType # "point-cloud" }
    /\ \A k \in DOMAIN fout : fout[k] = fin[k]
    /\ DOMAIN fout \cap {"refresh", "highlight", "view", "children", "selection"} = {}

C11_Witness ==
  /\ fdone
  /\ fin.layerType = "point-cloud"
  /\ fin.opacity = 5
  /\ fin.url = NullStr
  /\ fin.refresh = 1
  /\ DOMAIN fout = {"id", "layerType", "visible"}

\* --------------------------------------------------- Highlight Resolver
\* C12: the output of getHighlightOIDs has the length and order of the
\* input; an id of UUID shape becomes the native row identifier of a loaded
\* graphic whose global identifier equals it, or null when none does; any
\* other id is passed through unchanged; a UUID with native id 7 followed
\* by 42 yields [7, 42].
C12_ResolverMapsIdsInOrder ==
  fdone =>
    LET ids == fin.mysteryIds
        gs == fin.layerView.graphics
    IN /\ Len(fout) = Len(ids)
       /\ \A i \in 1..Len(ids) :
            IF ids[i] \in {Str(Uuid1Text), Str(Uuid1UpperText), Str(Uuid2Text)}
            THEN \/ \E j \in 1..Len(gs) : /\ gs[j].GlobalID = ids[i]
                                          /\ fout[i] = gs[j].OID
                 \/ /\ \A j \in 1..Len(gs) : gs[j].GlobalID # ids[i]
                    /\ fout[i] = NullId
            ELSE fout[i] = ids[i]
       /\ (ids = << Str(Uuid1Text), Num(42) >> /\ Len(gs) = 1 /\ gs[1].OID = Num(7))
            => fout = << Num(7), Num(42) >>

C12_Witness ==
  /\ fdone
  /\ fin.mysteryIds = << Str(Uuid1Text), Num(42) >>
  /\ fin.layerView.graphics = << [GlobalID |-> Str(Uuid1Text), OID |-> Num(7)] >>
  /\ fout = << Num(7), Num(42) >>

\* ------------------------------------------------------- post-load diff
\* C13: once the handle is attached, its view object resolved and its ready
\* signal completed, the Update Dispatcher is invoked once with the settings
\* extracted at mount as previous, the current props as next, and the
\* attached handle and the resolved view object as targets.
C13_PostLoadDiffTargets ==
  hist.step = "WhenResolve" =>
    dispatch = << [prev |-> lv.layerSettings, next |-> props,
                   layer |-> lv.layer, layerView |-> lv.layerView] >>

\* ---------------------------------------------------- initial selection
\* C14: when the mount sequence succeeds while still mounted and the initial
\* selection is non-empty, a highlight set is installed through the resolved
\* view object, the manager reaches Ready (handle and view object stored) and
\* onLoad is invoked with the handle.
C14_InitialSelectionReachesReady ==
  (/\ hist.step = "ApplyUpdatesResolve"
   /\ phase = "mounted"
   /\ Len(props.selection) > 0)
    => /\ pc = "done"
       /\ "highlight" \in Range(calls)
       /\ state.layer = lv.layer
       /\ state.layerView = lv.layerView
       /\ hist.onLoad = 1

\* ----------------------------------------------- highlight refresh trigger
\* C15: a prop change that alters neither the highlight input nor the view
\* object makes no release call and no highlight call and leaves the live
\* highlight set as it was; and when the highlight input is empty, no
\* highlight set is live after the change.
C15_HighlightUntouchedWithoutChange ==
  hist.step = "UpdateProps" =>
    /\ prevProps.highlight = props.highlight =>
         /\ "highlight" \notin Range(calls)
         /\ "hl.remove" \notin Range(calls)
    /\ Len(props.highlight.ids) = 0 => liveHL = {}

\* ---------------------------------------------------------- create events
\* C16: on a create event with state complete the editor first reports
\* {geometry, area} through onDraw and then issues a reshape update on the
\* just-created feature, entering Editing; on a create event with state
\* cancel it issues no create and stays idle if the caller-supplied geometry
\* exists and is reset-eligible, and otherwise issues exactly one create for
\* the configured geometry type and mode.
C16_CreateEvents ==
  thist.step = "CreateEvent" =>
    /\ thist.event = "complete" =>
         /\ Ops(tcalls) = << "onDraw", "update" >>
         /\ tcalls[1].graphic.geometry = thist.eventGraphic.geometry
         /\ tcalls[1].area = 1
         /\ tcalls[2].graphic = thist.eventGraphic
         /\ engine.op = "editing"
         /\ engine.target = thist.eventGraphic
    /\ thist.event = "cancel" =>
         IF tprops.geometry # NoGeometry /\ tprops.geometry.reset
         THEN tcalls = <<>> /\ engine.op = "idle"
         ELSE /\ Ops(tcalls) = << "create" >>
              /\ tcalls[1].type = tprops.geometryType
              /\ tcalls[1].mode = tprops.mode
              /\ engine.op = "drawing"

C16_Witness ==
  /\ thist.step = "CreateEvent"
  /\ thist.event = "cancel"
  /\ tprops.geometry # NoGeometry
  /\ tprops.geometry.reset
  /\ tcalls = <<>>
  /\ engine.op = "idle"

\* --------------------------------------------------------------- reporting
\* C17: onDraw is invoked exactly once for each create event with state
\* complete and for each update event with state active or complete,
\* carrying that event's geometry, and not at all by any other event or
\* state or by a prop-driven transition.
C17_OnDrawOncePerReportableEvent ==
  LET reports == { i \in 1..Len(tcalls) : tcalls[i].op = "onDraw" }
  IN IF \/ thist.step = "CreateEvent" /\ thist.event = "complete"
        \/ thist.step = "UpdateEvent" /\ thist.event \in {"active", "complete"}
     THEN /\ Cardinality(reports) = 1
          /\ \A i \in reports : tcalls[i].graphic.geometry = thist.eventGraphic.geometry
     ELSE reports = {}

C17_Witness ==
  /\ thist.step = "UpdateEvent"
  /\ thist.event = "active"
  /\ Ops(tcalls) = << "onDraw" >>
  /\ tcalls[1].graphic.geometry = thist.eventGraphic.geometry
  /\ tcalls[1].graphic.geometry # NoGeometry

\* -------------------------------------------------------- session lifetime
\* C18: once unmount has happened and all pending asynchronous steps have
\* completed, the scratch surface is not attached to the view, no create or
\* update subscription remains active, no edit-engine instance remains
\* undestroyed, and no later engine event leads to an onDraw invocation or
\* an edit-engine command.
C18_NothingOutlivesUnmount ==
  (tphase = "unmounted" /\ tpc \in {"done", "rejected"}) =>
    /\ ~attached
    /\ ~engine.subCreate
    /\ ~engine.subUpdate
    /\ engine.exists => engine.destroyed
    /\ thist.step \in {"CreateEvent", "UpdateEvent"} => tcalls = <<>>

\* ------------------------------------------------- reset-eligible geometry
\* C19: a prop update that leaves the geometry prop unchanged, or that
\* supplies a valid geometry that is not reset-eligible, issues no
\* edit-engine command and leaves the scratch surface unchanged.
C19_NoReinstallWithoutNewGeometry ==
  (/\ thist.step = "ToolUpdateProps"
   /\ \/ thist.prevGeometry = tprops.geometry
      \/ isValidGeometry(tprops.geometry) /\ ~tprops.geometry.reset)
    => /\ tcalls = <<>>
       /\ graphics = thist.surfaceBefore

\* ------------------------------------------------ scratch surface invariant
\* C20: the scratch surface holds at most one graphic, and whenever the
\* editor installs a geometry the surface was empty just before, so the
\* reshape update the installation issues on the first graphic of the
\* surface targets the geometry just installed.
C20_SurfaceHoldsAtMostOne ==
  /\ Len(graphics) <= 1
  /\ \A i \in 1..Len(tcalls) :
       tcalls[i].op = "graphics.add" =>
         /\ i < Len(tcalls)
         /\ tcalls[i + 1].op = "update"
         /\ tcalls[i + 1].graphic = tcalls[i].graphic
         /\ graphics = << tcalls[i].graphic >>
         /\ (i > 1 /\ tcalls[i - 1].op = "graphics.removeAll") \/ thist.surfaceBefore = <<>>

C20_Witness ==
  /\ thist.step = "ToolUpdateProps"
  /\ Len(thist.surfaceBefore) = 1
  /\ Ops(tcalls) = << "cancel", "graphics.removeAll", "graphics.add", "update" >>
  /\ tcalls[3].graphic.geometry = tprops.geometry
  /\ thist.surfaceBefore[1].geometry # tprops.geometry
  /\ graphics = << tcalls[3].graphic >>

====
